---- MODULE Spec2Model ----
(***************************************************************************)
(* Order placement, stock ledger and stock-alert sweep of the cocktail     *)
(* ordering backend (express + mongoose).  Every request handler is a      *)
(* sequence of steps; a step is the code between two awaits that touch the *)
(* database, so steps of concurrent requests interleave as the node event  *)
(* loop allows.  Collections are sequences in insertion order; a document  *)
(* loaded by a handler is a private copy that save() writes back path by   *)
(* path ($set of the modified paths).                                      *)
(***************************************************************************)
EXTENDS Integers, Sequences, FiniteSets, TLC

-----------------------------------------------------------------------------
(* Bounds of the model *)

NumSlots == 2        \* request handlers that can be in flight together
MaxRequests == 3     \* requests served in one behaviour
MaxQty == 2          \* largest quantity of a line item or restock
MaxItems == 2        \* line items of one request
MaxPrice == 2        \* largest catalog price
MaxStock == 2        \* largest stock value written by an admin request
MaxTicks == 1        \* hours that pass in one behaviour
StartHour == 720     \* the hour at which a behaviour with a clock starts

Slots == 1..NumSlots

\* ObjectIds of catalog documents
CocktailIds == {"c1", "c2"}
\* two of the values of customer.state (models/Order.js enum)
CustomerStates == {"Lagos", "Kano"}
Keys == {"k1", "k2"}

-----------------------------------------------------------------------------
VARIABLES
  cocktails,     \* Cocktail collection: id -> [price, isActive, availableStates]
  orders,        \* Order collection, in insertion order
  inventory,     \* Inventory collection, in insertion order
  isProcessing,  \* InventoryAlertService.isProcessing
  now,           \* wall clock, in hours
  req,           \* per slot: the handler running there and its locals
  started,       \* requests received so far
  alerts,        \* notifications handed to the email service
  ledger         \* history: stock movements acknowledged to their callers

vars == <<cocktails, orders, inventory, isProcessing, now, req, started, alerts, ledger>>

-----------------------------------------------------------------------------
(* Generic helpers *)

Range(s) == {s[i] : i \in 1..Len(s)}

Min(S) == CHOOSE x \in S : \A y \in S : x <= y

RECURSIVE SumSeq(_)
SumSeq(s) == IF s = <<>> THEN 0 ELSE s[1] + SumSeq(Tail(s))

SeqsUpTo(S, n) == UNION {[1..k -> S] : k \in 1..n}

-----------------------------------------------------------------------------
(* Documents *)

\* models/Order.js: the paths of an Order the workflow reads or writes;
\* id is the position in the collection, 0 while the document is unsaved
NoOrder ==
  [id |-> 0, idempotencyKey |-> "", orderNumber |-> <<>>, customerState |-> "",
   items |-> <<>>, subtotal |-> 0, totalAmount |-> 0, fulfillmentStatus |-> ""]

FulfillmentStatuses == {"new", "preparing", "in_route", "delivered", "cancelled"}

\* models/Cart.js (Inventory schema): id 0 stands for "no document"
NoInventory ==
  [id |-> 0, cocktail |-> "", currentStock |-> 0, minimumStock |-> 0,
   alertSettings |-> [isEnabled |-> FALSE, frequency |-> "", lastAlertSent |-> -1,
                      alertThreshold |-> 0],
   restockHistory |-> <<>>, isActive |-> FALSE, v |-> 0]

\* the body of a response: the error, the order or the inventory document it
\* serialises (virtuals included: stockStatus) and the inventory warning of
\* an order result; no handler of routes/orders.js writes a warning
NoResponse ==
  [status |-> 0, error |-> "", order |-> NoOrder, inventory |-> NoInventory,
   stockStatus |-> "", inventoryWarning |-> "", listing |-> <<>>]

Respond(status, error, order) ==
  [NoResponse EXCEPT !.status = status, !.error = error, !.order = order]

IdleReq ==
  [op |-> "idle", pc |-> "idle", n |-> 0, key |-> "",
   order |-> NoOrder, populated |-> <<>>, i |-> 0, doc |-> NoInventory,
   low |-> <<>>, crit |-> <<>>, pos |-> 0, arg |-> 0, path |-> "",
   response |-> NoResponse]

Done(r, response) ==
  [IdleReq EXCEPT !.op = r.op, !.pc = "done", !.n = r.n, !.key = r.key,
                   !.response = response]

\* a handler is free to take a request; requests go to the first free one
Free(s) ==
  /\ req[s].pc \in {"idle", "done"}
  /\ \A t \in Slots : t < s => req[t].pc \notin {"idle", "done"}
  /\ started < MaxRequests

-----------------------------------------------------------------------------
(* Order model: models/Order.js *)

\* String(n): the decimal digits of n
RECURSIVE DecimalString(_)
DecimalString(n) ==
  IF n < 10 THEN <<n>> ELSE DecimalString(n \div 10) \o <<n % 10>>

\* String.prototype.padStart
PadStart(s, targetLength, fill) ==
  IF Len(s) >= targetLength THEN s
  ELSE [k \in 1..(targetLength - Len(s)) |-> fill] \o s

\* orderSchema.pre('save'): `ORD-${String(count + 1).padStart(6, '0')}`
OrderNumberOf(count) == <<"ORD-">> \o PadStart(DecimalString(count + 1), 6, 0)

\* mutant: the Order collection without the unique index on idempotencyKey
OrderUniqueViolationNumberOnly(doc) ==
  \E k \in 1..Len(orders) : orders[k].orderNumber = doc.orderNumber

\* mutant: the Order collection with no unique index built
OrderUniqueViolationNone(doc) == FALSE

\* mutant: the Order collection without the unique index on orderNumber
OrderUniqueViolationKeyOnly(doc) ==
  \E k \in 1..Len(orders) : orders[k].idempotencyKey = doc.idempotencyKey

\* the unique indexes of the Order collection (orderNumber, idempotencyKey)
OrderUniqueViolation(doc) ==
  \E k \in 1..Len(orders) :
    \/ orders[k].idempotencyKey = doc.idempotencyKey
    \/ orders[k].orderNumber = doc.orderNumber

\* Order.findOne({ idempotencyKey })
FindOrderByKey(key) ==
  LET hits == {k \in 1..Len(orders) : orders[k].idempotencyKey = key}
  IN IF hits = {} THEN NoOrder ELSE orders[Min(hits)]

-----------------------------------------------------------------------------
(* Inventory model: models/Cart.js (Inventory schema) *)

\* mutant: the critical band stops below the alert threshold
StockStatusBelowThreshold(doc) ==
  IF doc.currentStock = 0 THEN "out_of_stock"
  ELSE IF doc.currentStock < doc.alertSettings.alertThreshold THEN "critical"
  ELSE IF doc.currentStock <= doc.minimumStock THEN "low"
  ELSE "sufficient"

\* inventorySchema.virtual('stockStatus')
StockStatus(doc) ==
  IF doc.currentStock = 0 THEN "out_of_stock"
  ELSE IF doc.currentStock <= doc.alertSettings.alertThreshold THEN "critical"
  ELSE IF doc.currentStock <= doc.minimumStock THEN "low"
  ELSE "sufficient"

\* res.json({ success: true, inventory }): toJSON serialises the virtuals
RespondInventory(status, doc) ==
  [NoResponse EXCEPT !.status = status, !.inventory = doc,
                     !.stockStatus = StockStatus(doc)]

\* inventorySchema.methods.isStockCritical
IsStockCritical(doc) == doc.currentStock <= doc.alertSettings.alertThreshold

\* inventorySchema.statics.findLowStock
FindLowStock ==
  SelectSeq(inventory, LAMBDA d : d.isActive /\ d.currentStock <= d.minimumStock)

\* inventorySchema.statics.findCriticalStock
FindCriticalStock ==
  SelectSeq(inventory,
            LAMBDA d : d.isActive /\ d.currentStock <= d.alertSettings.alertThreshold)

\* Inventory.findOne({ cocktail, isActive: true })
FindActiveInventory(cocktail) ==
  LET hits == {k \in 1..Len(inventory) :
                 inventory[k].cocktail = cocktail /\ inventory[k].isActive}
  IN IF hits = {} THEN NoInventory ELSE inventory[Min(hits)]

\* mutant: the stock test lets a shortfall of one unit through
InsufficientStockOffByOne(doc, quantity) == doc.currentStock + 1 < quantity

\* the test of inventorySchema.methods.reduceStock
InsufficientStock(doc, quantity) == doc.currentStock < quantity

\* mutant: the schema without its min validators
ValidStockUnchecked(value) == value >= -1

\* the validators of the schema on currentStock and minimumStock (min: 0)
ValidStock(value) == value >= 0

-----------------------------------------------------------------------------
(* Alert service: services/inventoryAlertService.js *)

\* the frequency windows of shouldSendAlert, in hours
FrequencyWindow(frequency) ==
  CASE frequency = "immediate" -> 0
    [] frequency = "daily" -> 24
    [] frequency = "weekly" -> 7 * 24
    [] frequency = "monthly" -> 30 * 24
    [] OTHER -> 24

\* mutant: the window has to be exceeded, not reached
ShouldSendAlertStrict(settings, t) ==
  IF settings.lastAlertSent = -1 THEN TRUE
  ELSE IF settings.frequency = "immediate" THEN TRUE
  ELSE t - settings.lastAlertSent > FrequencyWindow(settings.frequency)

\* shouldSendAlert(settings); lastAlertSent = -1 stands for an unset date
ShouldSendAlert(settings, t) ==
  IF settings.lastAlertSent = -1 THEN TRUE
  ELSE IF settings.frequency = "immediate" THEN TRUE
  ELSE t - settings.lastAlertSent >= FrequencyWindow(settings.frequency)

\* processCriticalStockAlert up to its first await: does it send?
CriticalAlertDue(doc, t) ==
  doc.alertSettings.isEnabled /\ ShouldSendAlert(doc.alertSettings, t)

\* processLowStockAlert up to its first await: does it send?
LowAlertDue(doc, t) ==
  /\ ~IsStockCritical(doc)
  /\ doc.alertSettings.isEnabled
  /\ ShouldSendAlert(doc.alertSettings, t)

\* the two loops of checkInventoryLevels run over crit, then over low;
\* position p counts through both lists
SweepItem(r, p) == IF p <= Len(r.crit) THEN r.crit[p] ELSE r.low[p - Len(r.crit)]
SweepKind(r, p) == IF p <= Len(r.crit) THEN "critical" ELSE "low"
SweepDue(r, p, t) ==
  IF p <= Len(r.crit) THEN CriticalAlertDue(r.crit[p], t)
  ELSE LowAlertDue(r.low[p - Len(r.crit)], t)

\* what the caller of checkInventoryLevels does when it returns
AfterSweep(r) ==
  IF r.op = "createOrder" THEN Done(r, Respond(201, "", r.order))
  ELSE IF r.op = "checkAlerts" THEN Done(r, Respond(200, "", NoOrder))
  ELSE Done(r, NoResponse)

\* the loops of checkInventoryLevels from position p on, up to the next await:
\* the request waiting on the next email, or the caller's continuation after
\* the finally block; the second component is isProcessing
SweepAdvance(r, p) ==
  LET due == {q \in (p + 1)..(Len(r.crit) + Len(r.low)) : SweepDue(r, q, now)}
  IN IF due = {} THEN <<AfterSweep(r), FALSE>>
     ELSE <<[r EXCEPT !.pc = "sendEmail", !.pos = Min(due)], TRUE>>

\* mutant: checkInventoryLevels without its isProcessing test
SweepEnterReentrant(r) == <<[r EXCEPT !.pc = "findLowStock"], TRUE>>

\* checkInventoryLevels up to its first await
SweepEnter(r) ==
  IF isProcessing THEN <<AfterSweep(r), TRUE>>
  ELSE <<[r EXCEPT !.pc = "findLowStock"], TRUE>>

\* await Inventory.findLowStock()
CheckInventoryFindLowStock(s) ==
  /\ req[s].pc = "findLowStock"
  /\ req' = [req EXCEPT ![s].low = FindLowStock, ![s].pc = "findCriticalStock"]
  /\ UNCHANGED <<cocktails, orders, inventory, isProcessing, now, started, alerts, ledger>>

\* await Inventory.findCriticalStock(), then the loops up to the first email
CheckInventoryFindCriticalStock(s) ==
  /\ req[s].pc = "findCriticalStock"
  /\ LET next == SweepAdvance([req[s] EXCEPT !.crit = FindCriticalStock], 0)
     IN /\ req' = [req EXCEPT ![s] = next[1]]
        /\ isProcessing' = next[2]
  /\ UNCHANGED <<cocktails, orders, inventory, now, started, alerts, ledger>>

\* mutant: a failure of the email service is not caught where it happens; it
\* ends the loops in the catch of checkInventoryLevels
SendStockEmailThrows(s) ==
  /\ req[s].pc = "sendEmail"
  /\ \E ok \in BOOLEAN :
       /\ alerts' = alerts \cup {[n |-> req[s].n, item |-> SweepItem(req[s], req[s].pos).id,
                                  kind |-> SweepKind(req[s], req[s].pos), ok |-> ok]}
       /\ IF ok
          THEN /\ req' = [req EXCEPT ![s].pc = "saveAlert", ![s].arg = now]
               /\ UNCHANGED isProcessing
          ELSE /\ req' = [req EXCEPT ![s] = AfterSweep(req[s])]
               /\ isProcessing' = FALSE
  /\ UNCHANGED <<cocktails, orders, inventory, now, started, ledger>>

\* sendCriticalStockEmail / sendLowStockEmail: the email service is called and
\* succeeds or fails (the failure is caught and logged); then lastAlertSent is
\* set on the loaded document and save() is called
SendStockEmail(s) ==
  /\ req[s].pc = "sendEmail"
  /\ \E ok \in BOOLEAN :
       alerts' = alerts \cup {[n |-> req[s].n, item |-> SweepItem(req[s], req[s].pos).id,
                               kind |-> SweepKind(req[s], req[s].pos), ok |-> ok]}
  /\ req' = [req EXCEPT ![s].pc = "saveAlert", ![s].arg = now]
  /\ UNCHANGED <<cocktails, orders, inventory, isProcessing, now, started, ledger>>

\* mutant: lastAlertSent is stored only after a delivered notification
SaveLastAlertSentIfDelivered(s) ==
  /\ req[s].pc = "saveAlert"
  /\ inventory' =
       IF [n |-> req[s].n, item |-> SweepItem(req[s], req[s].pos).id,
           kind |-> SweepKind(req[s], req[s].pos), ok |-> TRUE] \in alerts
       THEN [inventory EXCEPT
               ![SweepItem(req[s], req[s].pos).id].alertSettings.lastAlertSent = req[s].arg]
       ELSE inventory
  /\ LET next == SweepAdvance(req[s], req[s].pos)
     IN /\ req' = [req EXCEPT ![s] = next[1]]
        /\ isProcessing' = next[2]
  /\ UNCHANGED <<cocktails, orders, now, started, alerts, ledger>>

\* await inventoryItem.save(): $set of alertSettings.lastAlertSent
SaveLastAlertSent(s) ==
  /\ req[s].pc = "saveAlert"
  /\ inventory' = [inventory EXCEPT
                     ![SweepItem(req[s], req[s].pos).id].alertSettings.lastAlertSent = req[s].arg]
  /\ LET next == SweepAdvance(req[s], req[s].pos)
     IN /\ req' = [req EXCEPT ![s] = next[1]]
        /\ isProcessing' = next[2]
  /\ UNCHANGED <<cocktails, orders, now, started, alerts, ledger>>

\* the sweeps whose awaited query or save can reject
FailingPcs == {"findLowStock", "findCriticalStock", "saveAlert"}

\* mutant: checkInventoryLevels with a catch but without its finally block
SweepFailsKeepsFlag(s) ==
  /\ req[s].pc \in FailingPcs
  /\ alerts' = alerts \cup {[n |-> req[s].n, item |-> 0, kind |-> "error", ok |-> FALSE]}
  /\ req' = [req EXCEPT ![s] = AfterSweep(req[s])]
  /\ UNCHANGED <<cocktails, orders, inventory, isProcessing, now, started, ledger>>

\* the awaited findLowStock(), findCriticalStock() or save() rejects: the
\* catch of checkInventoryLevels logs the error, the finally block clears
\* isProcessing and the caller continues as after a completed sweep
SweepFails(s) ==
  /\ req[s].pc \in FailingPcs
  /\ alerts' = alerts \cup {[n |-> req[s].n, item |-> 0, kind |-> "error", ok |-> FALSE]}
  /\ req' = [req EXCEPT ![s] = AfterSweep(req[s])]
  /\ isProcessing' = FALSE
  /\ UNCHANGED <<cocktails, orders, inventory, now, started, ledger>>

\* the setInterval callback of startPeriodicCheck fires
TimerFire(s) ==
  /\ Free(s)
  /\ LET next == SweepEnter([IdleReq EXCEPT !.op = "timer", !.n = started + 1])
     IN /\ req' = [req EXCEPT ![s] = next[1]]
        /\ isProcessing' = next[2]
  /\ started' = started + 1
  /\ UNCHANGED <<cocktails, orders, inventory, now, alerts, ledger>>

\* POST /inventory/check-alerts
CheckAlertsReceive(s) ==
  /\ Free(s)
  /\ LET next == SweepEnter([IdleReq EXCEPT !.op = "checkAlerts", !.n = started + 1])
     IN /\ req' = [req EXCEPT ![s] = next[1]]
        /\ isProcessing' = next[2]
  /\ started' = started + 1
  /\ UNCHANGED <<cocktails, orders, inventory, now, alerts, ledger>>

\* an hour passes on the clock read by new Date()
Tick ==
  /\ now < StartHour + MaxTicks
  /\ now' = now + 1
  /\ UNCHANGED <<cocktails, orders, inventory, isProcessing, req, started, alerts, ledger>>

\* processOrderInventory from line item i on, up to the next await
InventoryLoop(r, i) ==
  IF i <= Len(r.order.items)
  THEN <<[r EXCEPT !.pc = "findInventory", !.i = i, !.doc = NoInventory], isProcessing>>
  ELSE SweepEnter([r EXCEPT !.doc = NoInventory])

\* mutant: an item with insufficient stock is passed over and the loop goes
\* on with the next item
ProcessOrderInventoryFindOneSkips(s) ==
  /\ req[s].op = "createOrder" /\ req[s].pc = "findInventory"
  /\ LET r == req[s]
         item == r.order.items[r.i]
         inventoryItem == IF r.populated[r.i] THEN FindActiveInventory(item.cocktail)
                          ELSE NoInventory
         next == InventoryLoop(r, r.i + 1)
     IN IF inventoryItem.id # 0 /\ ~InsufficientStock(inventoryItem, item.quantity)
        THEN /\ req' = [req EXCEPT ![s] =
                  [r EXCEPT !.pc = "saveInventory",
                            !.doc = [inventoryItem EXCEPT
                                       !.currentStock = @ - item.quantity]]]
             /\ UNCHANGED isProcessing
        ELSE IF r.populated[r.i]
        THEN /\ req' = [req EXCEPT ![s] = next[1]]
             /\ isProcessing' = next[2]
        ELSE /\ req' = [req EXCEPT ![s] = Done(r, Respond(201, "", r.order))]
             /\ UNCHANGED isProcessing
  /\ UNCHANGED <<cocktails, orders, inventory, now, started, alerts, ledger>>

\* await Inventory.findOne(...) for line item i, the stock test and
\* reduceStock up to its save()
ProcessOrderInventoryFindOne(s) ==
  /\ req[s].op = "createOrder" /\ req[s].pc = "findInventory"
  /\ LET r == req[s]
         item == r.order.items[r.i]
         inventoryItem == IF r.populated[r.i] THEN FindActiveInventory(item.cocktail)
                          ELSE NoInventory
         next == InventoryLoop(r, r.i + 1)
     IN IF inventoryItem.id # 0
        THEN /\ req' = [req EXCEPT ![s] =
                  IF InsufficientStock(inventoryItem, item.quantity)
                  THEN Done(r, Respond(201, "", r.order))
                  ELSE [r EXCEPT !.pc = "saveInventory",
                                 !.doc = [inventoryItem EXCEPT
                                            !.currentStock = @ - item.quantity]]]
             /\ UNCHANGED isProcessing
        ELSE IF r.populated[r.i]
        THEN /\ req' = [req EXCEPT ![s] = next[1]]
             /\ isProcessing' = next[2]
        ELSE \* item.cocktail is null: reading its name throws
             /\ req' = [req EXCEPT ![s] = Done(r, Respond(201, "", r.order))]
             /\ UNCHANGED isProcessing
  /\ UNCHANGED <<cocktails, orders, inventory, now, started, alerts, ledger>>

\* await this.save() of reduceStock: the validators, then $set of
\* currentStock; a rejected save throws out of processOrderInventory
ReduceStockSave(s) ==
  /\ req[s].op = "createOrder" /\ req[s].pc = "saveInventory"
  /\ LET r == req[s]
         next == InventoryLoop(r, r.i + 1)
     IN IF ~ValidStock(r.doc.currentStock)
        THEN /\ req' = [req EXCEPT ![s] = Done(r, Respond(201, "", r.order))]
             /\ UNCHANGED <<inventory, ledger, isProcessing>>
        ELSE /\ inventory' = [inventory EXCEPT ![r.doc.id].currentStock = r.doc.currentStock]
             /\ ledger' = ledger \cup {[kind |-> "reduce", n |-> r.n, key |-> r.key, i |-> r.i,
                                        id |-> r.doc.id,
                                        quantity |-> r.order.items[r.i].quantity]}
             /\ req' = [req EXCEPT ![s] = next[1]]
             /\ isProcessing' = next[2]
  /\ UNCHANGED <<cocktails, orders, now, started, alerts>>

-----------------------------------------------------------------------------
(* Stock ledger requests: routes/inventory.js *)

\* "Keep only last 50 restock records"
HistoryCap == 50

\* mutant: slice(0, k), which keeps the oldest entries
SliceFirst(s, k) == IF Len(s) <= k THEN s ELSE SubSeq(s, 1, k)

\* Array.prototype.slice(-k)
SliceLast(s, k) == IF Len(s) <= k THEN s ELSE SubSeq(s, Len(s) - k + 1, Len(s))

\* Inventory.findById(id)
FindInventoryById(id) == IF id \in 1..Len(inventory) THEN inventory[id] ELSE NoInventory

\* mutant: the index and the lookup compare the document id, which a new
\* document does not have yet
InventoryUniqueViolationById(doc) ==
  \E k \in 1..Len(inventory) : inventory[k].id = doc.id

\* the unique index of the Inventory collection (cocktail)
InventoryUniqueViolation(doc) ==
  \E k \in 1..Len(inventory) : inventory[k].cocktail = doc.cocktail

InventoryIds == 1..Cardinality(CocktailIds)

\* the values of the status query parameter of GET /inventory
InventoryStatuses == {"sufficient", "low", "critical", "out_of_stock"}

\* the filter GET /inventory builds for a status
StatusFilter(status, d) ==
  /\ d.isActive
  /\ CASE status = "out_of_stock" -> d.currentStock = 0
       [] status = "critical" -> d.currentStock <= d.alertSettings.alertThreshold
       [] status = "low" -> d.currentStock <= d.minimumStock
       [] status = "sufficient" -> d.currentStock > d.minimumStock
       [] OTHER -> TRUE

\* .sort({ currentStock: 1 }): ascending stock, ties in insertion order
RECURSIVE SortByStock(_)
SortByStock(docs) ==
  IF docs = <<>> THEN <<>>
  ELSE LET least == Min({docs[k].currentStock : k \in 1..Len(docs)})
           first == Min({k \in 1..Len(docs) : docs[k].currentStock = least})
       IN <<docs[first]>> \o
          SortByStock([k \in 1..(Len(docs) - 1) |->
                         IF k < first THEN docs[k] ELSE docs[k + 1]])

\* GET /inventory?status=...: the request arrives
ListInventoryReceive(s) ==
  /\ Free(s)
  /\ \E status \in InventoryStatuses :
       req' = [req EXCEPT ![s] =
                 [IdleReq EXCEPT !.op = "listInventory", !.pc = "findListing",
                                 !.n = started + 1, !.path = status]]
  /\ started' = started + 1
  /\ UNCHANGED <<cocktails, orders, inventory, isProcessing, now, alerts, ledger>>

\* await Promise.all([Inventory.find(filter).sort(...), countDocuments(filter)])
ListInventoryFind(s) ==
  /\ req[s].op = "listInventory" /\ req[s].pc = "findListing"
  /\ req' = [req EXCEPT
               ![s].low = SortByStock(SelectSeq(inventory,
                                                LAMBDA d : StatusFilter(req[s].path, d))),
               ![s].pc = "countSummary"]
  /\ UNCHANGED <<cocktails, orders, inventory, isProcessing, now, started, alerts, ledger>>

\* the countDocuments calls of the summary, then res.json({ inventory, ... })
ListInventorySummary(s) ==
  /\ req[s].op = "listInventory" /\ req[s].pc = "countSummary"
  /\ req' = [req EXCEPT ![s] =
               Done(req[s], [NoResponse EXCEPT !.status = 200, !.listing = req[s].low])]
  /\ UNCHANGED <<cocktails, orders, inventory, isProcessing, now, started, alerts, ledger>>

\* POST /inventory: a request accepted by the validators arrives
CreateInventoryReceive(s, minimums, thresholds) ==
  /\ Free(s)
  /\ \E c \in CocktailIds, stock \in 0..MaxStock, minimum \in minimums,
        threshold \in thresholds :
       req' = [req EXCEPT ![s] =
                 [IdleReq EXCEPT !.op = "createInventory", !.pc = "findCocktail",
                                 !.n = started + 1,
                                 !.doc = [NoInventory EXCEPT
                                            !.cocktail = c, !.currentStock = stock,
                                            !.minimumStock = minimum,
                                            !.alertSettings = [isEnabled |-> TRUE,
                                                               frequency |-> "daily",
                                                               lastAlertSent |-> -1,
                                                               alertThreshold |-> threshold],
                                            !.isActive = TRUE]]]
  /\ started' = started + 1
  /\ UNCHANGED <<cocktails, orders, inventory, isProcessing, now, alerts, ledger>>

\* await Cocktail.findById(cocktail)
CreateInventoryFindCocktail(s) ==
  /\ req[s].op = "createInventory" /\ req[s].pc = "findCocktail"
  /\ req' = [req EXCEPT ![s] =
               IF @.doc.cocktail \notin DOMAIN cocktails
               THEN Done(@, Respond(404, "Cocktail not found", NoOrder))
               ELSE [@ EXCEPT !.pc = "findExistingInventory"]]
  /\ UNCHANGED <<cocktails, orders, inventory, isProcessing, now, started, alerts, ledger>>

\* await Inventory.findOne({ cocktail }) and the duplicate check
CreateInventoryFindExisting(s) ==
  /\ req[s].op = "createInventory" /\ req[s].pc = "findExistingInventory"
  /\ req' = [req EXCEPT ![s] =
               IF InventoryUniqueViolation(@.doc)
               THEN Done(@, Respond(400, "Inventory already exists", NoOrder))
               ELSE [@ EXCEPT !.pc = "insertInventory"]]
  /\ UNCHANGED <<cocktails, orders, inventory, isProcessing, now, started, alerts, ledger>>

\* await inventory.save(): the insert under the unique index
CreateInventoryInsert(s) ==
  /\ req[s].op = "createInventory" /\ req[s].pc = "insertInventory"
  /\ LET r == req[s]
         saved == [r.doc EXCEPT !.id = Len(inventory) + 1]
     IN IF InventoryUniqueViolation(r.doc)
        THEN /\ req' = [req EXCEPT ![s] =
                          Done(r, Respond(500, "Failed to create inventory item", NoOrder))]
             /\ UNCHANGED <<inventory, ledger>>
        ELSE /\ inventory' = Append(inventory, saved)
             /\ ledger' = ledger \cup {[kind |-> "create", n |-> r.n, key |-> "", i |-> 0,
                                        id |-> saved.id, quantity |-> saved.currentStock]}
             /\ req' = [req EXCEPT ![s] = Done(r, RespondInventory(201, saved))]
  /\ UNCHANGED <<cocktails, orders, isProcessing, now, started, alerts>>

\* POST /inventory/:id/restock: a request accepted by the validators arrives
RestockReceive(s) ==
  /\ Free(s)
  /\ \E id \in InventoryIds, quantity \in 1..MaxQty :
       req' = [req EXCEPT ![s] =
                 [IdleReq EXCEPT !.op = "restock", !.pc = "findById", !.n = started + 1,
                                 !.i = id, !.arg = quantity]]
  /\ started' = started + 1
  /\ UNCHANGED <<cocktails, orders, inventory, isProcessing, now, alerts, ledger>>

\* inventorySchema.methods.addStock up to its save(), on the loaded document
AddStock(doc, quantity, n) ==
  LET pushed == Append(doc.restockHistory, [quantity |-> quantity, n |-> n])
  IN [doc EXCEPT !.currentStock = @ + quantity,
                 !.restockHistory = IF Len(pushed) > HistoryCap
                                    THEN SliceLast(pushed, HistoryCap) ELSE pushed]

\* await Inventory.findById(id), then addStock up to its save()
RestockFindById(s) ==
  /\ req[s].op = "restock" /\ req[s].pc = "findById"
  /\ LET r == req[s]
         doc == FindInventoryById(r.i)
     IN req' = [req EXCEPT ![s] =
                  IF doc.id = 0
                  THEN Done(r, Respond(404, "Inventory item not found", NoOrder))
                  ELSE [r EXCEPT !.pc = "saveRestock", !.doc = AddStock(doc, r.arg, r.n),
                                 !.pos = Len(doc.restockHistory)]]
  /\ UNCHANGED <<cocktails, orders, inventory, isProcessing, now, started, alerts, ledger>>

\* await this.save() of addStock.  currentStock is $set.  A history that was
\* only pushed to is sent as $push with $inc of __v; a history that was
\* replaced by its slice is $set under the condition that __v is unchanged
RestockSave(s) ==
  /\ req[s].op = "restock" /\ req[s].pc = "saveRestock"
  /\ LET r == req[s]
         stored == inventory[r.doc.id]
         sliced == r.pos + 1 > HistoryCap
     IN IF sliced /\ stored.v # r.doc.v
        THEN /\ req' = [req EXCEPT ![s] =
                          Done(r, Respond(500, "Failed to restock inventory", NoOrder))]
             /\ UNCHANGED <<inventory, ledger>>
        ELSE /\ inventory' = [inventory EXCEPT ![r.doc.id] =
                  [stored EXCEPT !.currentStock = r.doc.currentStock,
                                 !.restockHistory =
                                    IF sliced THEN r.doc.restockHistory
                                    ELSE Append(@, [quantity |-> r.arg, n |-> r.n]),
                                 !.v = @ + 1]]
             /\ ledger' = ledger \cup {[kind |-> "restock", n |-> r.n, key |-> "", i |-> 0,
                                        id |-> r.doc.id, quantity |-> r.arg]}
             /\ req' = [req EXCEPT ![s] =
                          Done(r, RespondInventory(200, [r.doc EXCEPT !.v = @ + 1]))]
  /\ UNCHANGED <<cocktails, orders, isProcessing, now, started, alerts>>

\* PUT /inventory/:id: the body sets one path of the document
UpdateInventoryReceive(s, paths) ==
  /\ Free(s)
  /\ \E id \in InventoryIds, path \in paths, value \in -1..MaxStock :
       req' = [req EXCEPT ![s] =
                 [IdleReq EXCEPT !.op = "updateInventory", !.pc = "findById",
                                 !.n = started + 1, !.i = id, !.path = path, !.arg = value]]
  /\ started' = started + 1
  /\ UNCHANGED <<cocktails, orders, inventory, isProcessing, now, alerts, ledger>>

\* Object.assign(inventory, updateData) for a body of one path
Assign(doc, path, value) ==
  CASE path = "currentStock" -> [doc EXCEPT !.currentStock = value]
    [] path = "minimumStock" -> [doc EXCEPT !.minimumStock = value]
    [] path = "alertThreshold" -> [doc EXCEPT !.alertSettings.alertThreshold = value]

\* await Inventory.findById(id), then Object.assign(inventory, updateData)
UpdateInventoryFindById(s) ==
  /\ req[s].op = "updateInventory" /\ req[s].pc = "findById"
  /\ LET r == req[s]
         doc == FindInventoryById(r.i)
     IN req' = [req EXCEPT ![s] =
                  IF doc.id = 0
                  THEN Done(r, Respond(404, "Inventory item not found", NoOrder))
                  ELSE [r EXCEPT !.pc = "saveUpdate", !.doc = Assign(doc, r.path, r.arg)]]
  /\ UNCHANGED <<cocktails, orders, inventory, isProcessing, now, started, alerts, ledger>>

\* await inventory.save(): the validators (min: 0), then $set of the path
UpdateInventorySave(s) ==
  /\ req[s].op = "updateInventory" /\ req[s].pc = "saveUpdate"
  /\ LET r == req[s]
     IN IF ~ValidStock(r.arg)
        THEN /\ req' = [req EXCEPT ![s] =
                          Done(r, Respond(500, "Failed to update inventory", NoOrder))]
             /\ UNCHANGED <<inventory, ledger>>
        ELSE /\ inventory' = [inventory EXCEPT ![r.doc.id] = Assign(@, r.path, r.arg)]
             /\ ledger' = IF r.path = "currentStock"
                          THEN ledger \cup {[kind |-> "set", n |-> r.n, key |-> "", i |-> 0,
                                             id |-> r.doc.id, quantity |-> r.arg]}
                          ELSE ledger
             /\ req' = [req EXCEPT ![s] = Done(r, RespondInventory(200, r.doc))]
  /\ UNCHANGED <<cocktails, orders, isProcessing, now, started, alerts>>

-----------------------------------------------------------------------------
(* POST /orders: routes/orders.js *)

\* mutant: the query without its isActive filter
FindCocktailsAnyActivity(ids) == {c \in Range(ids) : c \in DOMAIN cocktails}

\* mutant: one document is returned for every requested id, repeated or not
FindActiveCocktailsPerItem(ids) ==
  {k \in 1..Len(ids) : ids[k] \in DOMAIN cocktails /\ cocktails[ids[k]].isActive}

\* Cocktail.find({ _id: { $in: cocktailIds }, isActive: true })
FindActiveCocktails(ids) ==
  {c \in Range(ids) : c \in DOMAIN cocktails /\ cocktails[c].isActive}

\* mutant: the item total forgets the quantity
ItemTotalUnitPrice(price, quantity) == price

\* const itemTotal = cocktail.price * item.quantity
ItemTotal(price, quantity) == price * quantity

\* the validatedItems built by the loop over req.body.items
ValidatedItems(items) ==
  [k \in 1..Len(items) |->
     [cocktail |-> items[k].cocktail, quantity |-> items[k].quantity,
      price |-> cocktails[items[k].cocktail].price]]

Subtotal(validatedItems) ==
  SumSeq([k \in 1..Len(validatedItems) |->
            ItemTotal(validatedItems[k].price, validatedItems[k].quantity)])

LineItems == [cocktail : CocktailIds, quantity : 1..MaxQty]

\* POST /orders: a request accepted by validateOrder arrives.  Its
\* idempotency key is read at once; customer and items are read, and so
\* chosen here, in CreateOrderFindCocktails
CreateOrderReceive(s) ==
  /\ Free(s)
  /\ \E key \in Keys :
       req' = [req EXCEPT ![s] = [IdleReq EXCEPT !.op = "createOrder", !.pc = "findExisting",
                                     !.n = started + 1, !.key = key]]
  /\ started' = started + 1
  /\ UNCHANGED <<cocktails, orders, inventory, isProcessing, now, alerts, ledger>>

\* mutant: a duplicate request runs the inventory processing again for the
\* order it found
CreateOrderFindExistingReplays(s) ==
  /\ req[s].op = "createOrder" /\ req[s].pc = "findExisting"
  /\ LET existingOrder == FindOrderByKey(req[s].key)
         next == InventoryLoop([req[s] EXCEPT
                                  !.order = existingOrder,
                                  !.populated = [k \in 1..Len(existingOrder.items) |-> TRUE]], 1)
     IN IF existingOrder.id # 0
        THEN /\ req' = [req EXCEPT ![s] = next[1]]
             /\ isProcessing' = next[2]
        ELSE /\ req' = [req EXCEPT ![s].pc = "findCocktails"]
             /\ UNCHANGED isProcessing
  /\ UNCHANGED <<cocktails, orders, inventory, now, started, alerts, ledger>>

\* await Order.findOne({ idempotencyKey }) and the duplicate check
CreateOrderFindExisting(s) ==
  /\ req[s].op = "createOrder" /\ req[s].pc = "findExisting"
  /\ LET existingOrder == FindOrderByKey(req[s].key)
     IN req' = [req EXCEPT ![s] =
                  IF existingOrder.id # 0
                  THEN Done(@, Respond(400, "Duplicate order", existingOrder))
                  ELSE [@ EXCEPT !.pc = "findCocktails"]]
  /\ UNCHANGED <<cocktails, orders, inventory, isProcessing, now, started, alerts, ledger>>

\* the customer and items validateOrder accepts, over the given values
OrderBodies(states, itemLists) == [customerState : states, items : itemLists]

\* await Cocktail.find(...), the count check, the per-item state check, the
\* totals and new Order(...); order.save() then runs up to countDocuments()
CreateOrderFindCocktails(s, bodies) ==
  /\ req[s].op = "createOrder" /\ req[s].pc = "findCocktails"
  /\ \E body \in bodies :
     LET r == req[s]
         ids == [k \in 1..Len(body.items) |-> body.items[k].cocktail]
         found == FindActiveCocktails(ids)
         validatedItems == ValidatedItems(body.items)
         subtotal == Subtotal(validatedItems)
     IN req' = [req EXCEPT ![s] =
          IF Cardinality(found) # Len(ids)
          THEN Done(r, Respond(400, "Invalid cocktails", NoOrder))
          ELSE IF \E k \in 1..Len(ids) :
                    body.customerState \notin cocktails[ids[k]].availableStates
          THEN Done(r, Respond(400, "Cocktail not available", NoOrder))
          ELSE [r EXCEPT !.pc = "countDocuments",
                  !.order = [NoOrder EXCEPT !.idempotencyKey = r.key,
                                            !.customerState = body.customerState,
                                            !.items = validatedItems,
                                            !.subtotal = subtotal,
                                            !.totalAmount = subtotal,
                                            !.fulfillmentStatus = "new"]]]
  /\ UNCHANGED <<cocktails, orders, inventory, isProcessing, now, started, alerts, ledger>>

\* orderSchema.pre('save'): await this.constructor.countDocuments()
OrderPreSave(s) ==
  /\ req[s].op = "createOrder" /\ req[s].pc = "countDocuments"
  /\ req' = [req EXCEPT ![s].order.orderNumber = OrderNumberOf(Len(orders)),
                        ![s].pc = "insert"]
  /\ UNCHANGED <<cocktails, orders, inventory, isProcessing, now, started, alerts, ledger>>

\* the insert of order.save() under the unique indexes, then order.populate
\* and processOrderInventory up to its first await
OrderInsert(s) ==
  /\ req[s].op = "createOrder" /\ req[s].pc = "insert"
  /\ LET r == req[s]
         saved == [r.order EXCEPT !.id = Len(orders) + 1]
         populated == [k \in 1..Len(saved.items) |-> saved.items[k].cocktail \in DOMAIN cocktails]
         next == InventoryLoop([r EXCEPT !.order = saved, !.populated = populated], 1)
     IN IF OrderUniqueViolation(r.order)
        THEN /\ req' = [req EXCEPT ![s] = Done(r, Respond(500, "Failed to create order", NoOrder))]
             /\ UNCHANGED <<orders, isProcessing>>
        ELSE /\ orders' = Append(orders, saved)
             /\ req' = [req EXCEPT ![s] = next[1]]
             /\ isProcessing' = next[2]
  /\ UNCHANGED <<cocktails, inventory, now, started, alerts, ledger>>

-----------------------------------------------------------------------------
(* PATCH /orders/:id/status (routes/orders.js) and                         *)
(* PATCH /admin/orders/:id/status (routes/payments.js)                     *)

\* the values the validators of each route let through
AcceptedStatuses(route) ==
  IF route = "orders" THEN {"new", "preparing", "delivered", "cancelled"}
  ELSE FulfillmentStatuses

OrderIds == 1..Cardinality(Keys)

UpdateStatusReceive(s) ==
  /\ Free(s)
  /\ \E route \in {"orders", "admin"}, id \in OrderIds :
       \E status \in AcceptedStatuses(route) :
         req' = [req EXCEPT ![s] =
                   [IdleReq EXCEPT !.op = "updateStatus", !.pc = "findOrder",
                                   !.n = started + 1, !.i = id, !.path = status]]
  /\ started' = started + 1
  /\ UNCHANGED <<cocktails, orders, inventory, isProcessing, now, alerts, ledger>>

\* await Order.findById(id), then order.fulfillmentStatus = fulfillmentStatus
UpdateStatusFindById(s) ==
  /\ req[s].op = "updateStatus" /\ req[s].pc = "findOrder"
  /\ LET r == req[s]
     IN req' = [req EXCEPT ![s] =
                  IF r.i \notin 1..Len(orders)
                  THEN Done(r, Respond(404, "Order not found", NoOrder))
                  ELSE [r EXCEPT !.pc = "saveStatus",
                                 !.order = [orders[r.i] EXCEPT !.fulfillmentStatus = r.path]]]
  /\ UNCHANGED <<cocktails, orders, inventory, isProcessing, now, started, alerts, ledger>>

\* await order.save(): $set of fulfillmentStatus
UpdateStatusSave(s) ==
  /\ req[s].op = "updateStatus" /\ req[s].pc = "saveStatus"
  /\ orders' = [orders EXCEPT ![req[s].order.id].fulfillmentStatus =
                                 req[s].order.fulfillmentStatus]
  /\ req' = [req EXCEPT ![s] = Done(req[s], Respond(200, "", req[s].order))]
  /\ UNCHANGED <<cocktails, inventory, isProcessing, now, started, alerts, ledger>>

-----------------------------------------------------------------------------
(* Catalog administration: routes/catalog.js *)

\* PUT /cocktails/:id: Cocktail.findByIdAndUpdate with a new price
UpdateCocktail(c) ==
  /\ started < MaxRequests
  /\ c \in DOMAIN cocktails
  /\ \E price \in 1..MaxPrice :
       /\ price # cocktails[c].price
       /\ cocktails' = [cocktails EXCEPT ![c].price = price]
  /\ started' = started + 1
  /\ UNCHANGED <<orders, inventory, isProcessing, now, req, alerts, ledger>>

\* DELETE /cocktails/:id: Cocktail.findByIdAndDelete
DeleteCocktail(c) ==
  /\ started < MaxRequests
  /\ c \in DOMAIN cocktails
  /\ cocktails' = [d \in DOMAIN cocktails \ {c} |-> cocktails[d]]
  /\ started' = started + 1
  /\ UNCHANGED <<orders, inventory, isProcessing, now, req, alerts, ledger>>

-----------------------------------------------------------------------------
(* Specifications *)

StockRecord(id, c, stock) ==
  [NoInventory EXCEPT !.id = id, !.cocktail = c, !.currentStock = stock,
                      !.minimumStock = 1,
                      !.alertSettings = [isEnabled |-> TRUE, frequency |-> "daily",
                                         lastAlertSent |-> -1, alertThreshold |-> 0],
                      !.isActive = TRUE]

InitCommon ==
  /\ orders = <<>>
  /\ isProcessing = FALSE
  /\ now = 0
  /\ req = [s \in Slots |-> IdleReq]
  /\ started = 0
  /\ alerts = {}

\* the ledger entry of a stock record that exists at start
Seeded(doc) ==
  [kind |-> "create", n |-> 0, key |-> "", i |-> 0, id |-> doc.id,
   quantity |-> doc.currentStock]

SweepStep(s) ==
  \/ CheckInventoryFindLowStock(s)
  \/ CheckInventoryFindCriticalStock(s)
  \/ SendStockEmail(s)
  \/ SaveLastAlertSent(s)

CreateOrderStep(s, bodies) ==
  \/ CreateOrderReceive(s)
  \/ CreateOrderFindExisting(s)
  \/ CreateOrderFindCocktails(s, bodies)
  \/ OrderPreSave(s)
  \/ OrderInsert(s)
  \/ ProcessOrderInventoryFindOne(s)
  \/ ReduceStockSave(s)

\* Concurrent and repeated POST /orders for one cocktail that is on sale in
\* Lagos and has a stock record
SingleItemBodies ==
  OrderBodies({"Lagos"}, {<<[cocktail |-> "c1", quantity |-> q]>> : q \in 1..MaxQty})

InitOrders ==
  /\ InitCommon
  /\ cocktails = [c \in CocktailIds |->
                    [price |-> 1, isActive |-> TRUE, availableStates |-> {"Lagos"}]]
  /\ \E stock \in 0..MaxStock : inventory = <<StockRecord(1, "c1", stock)>>
  /\ ledger = {Seeded(inventory[1])}

NextOrders ==
  \E s \in Slots :
    \/ CreateOrderStep(s, SingleItemBodies)
    \/ SweepStep(s)

SpecOrders == InitOrders /\ [][NextOrders]_vars

\* The stock ledger: records are created, restocked, edited and decremented
\* by orders, starting from an empty Inventory collection
InitStock ==
  /\ InitCommon
  /\ cocktails = [c \in CocktailIds |->
                    [price |-> 1, isActive |-> TRUE, availableStates |-> {"Lagos"}]]
  /\ inventory = <<>>
  /\ ledger = {}

InventoryStep(s) ==
  \/ CreateInventoryFindCocktail(s)
  \/ CreateInventoryFindExisting(s)
  \/ CreateInventoryInsert(s)
  \/ RestockFindById(s)
  \/ RestockSave(s)
  \/ UpdateInventoryFindById(s)
  \/ UpdateInventorySave(s)

NextStock ==
  \E s \in Slots :
    \/ CreateInventoryReceive(s, {1}, {0})
    \/ RestockReceive(s)
    \/ UpdateInventoryReceive(s, {"currentStock"})
    \/ InventoryStep(s)
    \/ CreateOrderStep(s, SingleItemBodies)
    \/ SweepStep(s)

SpecStock == InitStock /\ [][NextStock]_vars

\* The order workflow against a catalog that changes: prices are edited and
\* cocktails deleted while orders of one or two line items are placed
CatalogItemLists ==
  {items \in SeqsUpTo(LineItems, MaxItems) : \A k \in 2..Len(items) : items[k].quantity = 1}

CatalogOrderBodies == OrderBodies(CustomerStates, CatalogItemLists)

\* a stock record whose alerts the admin has switched off
Silent(doc) == [doc EXCEPT !.alertSettings.isEnabled = FALSE]

SweepQueryStep(s) ==
  \/ CheckInventoryFindLowStock(s)
  \/ CheckInventoryFindCriticalStock(s)

InitCatalog ==
  /\ InitCommon
  /\ \E active \in BOOLEAN :
       cocktails = [c \in CocktailIds |->
                      IF c = "c1"
                      THEN [price |-> 1, isActive |-> TRUE, availableStates |-> {"Lagos"}]
                      ELSE [price |-> MaxPrice, isActive |-> active,
                            availableStates |-> CustomerStates]]
  /\ inventory = <<Silent(StockRecord(1, "c1", MaxStock)), Silent(StockRecord(2, "c2", 1))>>
  /\ ledger = {Seeded(inventory[1]), Seeded(inventory[2])}

NextCatalog ==
  \/ \E s \in Slots :
       \/ CreateOrderStep(s, CatalogOrderBodies)
       \/ SweepQueryStep(s)
  \/ \E c \in CocktailIds : UpdateCocktail(c) \/ DeleteCocktail(c)

SpecCatalog == InitCatalog /\ [][NextCatalog]_vars

\* Fulfilment: orders are placed and their status is patched through both
\* status routes
NextStatus ==
  \E s \in Slots :
    \/ CreateOrderStep(s, SingleItemBodies)
    \/ SweepStep(s)
    \/ UpdateStatusReceive(s)
    \/ UpdateStatusFindById(s)
    \/ UpdateStatusSave(s)

SpecStatus == InitOrders /\ [][NextStatus]_vars

\* Stock levels: one record whose stock, minimum and alert threshold take
\* every value of the range, restocked and edited by the admin routes whose
\* responses serialise it
InitLevels ==
  /\ InitCommon
  /\ cocktails = [c \in CocktailIds |->
                    [price |-> 1, isActive |-> TRUE, availableStates |-> {"Lagos"}]]
  /\ \E stock, minimum, threshold \in 0..MaxStock :
       inventory = <<[StockRecord(1, "c1", stock) EXCEPT
                        !.minimumStock = minimum,
                        !.alertSettings.alertThreshold = threshold]>>
  /\ ledger = {Seeded(inventory[1])}

NextLevels ==
  \E s \in Slots :
    \/ RestockReceive(s)
    \/ UpdateInventoryReceive(s, {"currentStock", "minimumStock", "alertThreshold"})
    \/ RestockFindById(s)
    \/ RestockSave(s)
    \/ UpdateInventoryFindById(s)
    \/ UpdateInventorySave(s)

SpecLevels == InitLevels /\ [][NextLevels]_vars

\* The alert sweep: two stock records that need attention and were never
\* alerted; sweeps are started by the timer, by the admin route and by
\* orders that take the last unit of the second record
SweepOrderBodies ==
  OrderBodies({"Lagos"}, {<<[cocktail |-> "c2", quantity |-> q]>> : q \in 1..MaxQty})

InitSweep ==
  /\ InitCommon
  /\ cocktails = [c \in CocktailIds |->
                    [price |-> 1, isActive |-> TRUE, availableStates |-> {"Lagos"}]]
  /\ inventory = <<StockRecord(1, "c1", 0), StockRecord(2, "c2", 1)>>
  /\ ledger = {Seeded(inventory[1]), Seeded(inventory[2])}

NextSweep ==
  \E s \in Slots :
    \/ TimerFire(s)
    \/ CheckAlertsReceive(s)
    \/ SweepStep(s)
    \/ CreateOrderStep(s, SweepOrderBodies)

SpecSweep == InitSweep /\ [][NextSweep]_vars

\* The alert sweep with failing database calls; every awaited call of a
\* sweep settles (it resolves or rejects), which is the fairness condition
NextSweepLive ==
  \E s \in Slots :
    \/ TimerFire(s)
    \/ CheckAlertsReceive(s)
    \/ SweepStep(s)
    \/ SweepFails(s)

SpecSweepLive ==
  /\ InitSweep
  /\ [][NextSweepLive]_vars
  /\ \A s \in Slots : WF_vars(SweepStep(s) \/ SweepFails(s))

\* Alert frequency: the first record has every alert frequency and a last
\* alert at every distance around the frequency windows; sweeps are started
\* by the timer and by the admin route while the clock advances
ElapsedHours == {0, 23, 24, 25, 167, 168, 719, 720}

AlertFrequencies == {"immediate", "daily", "weekly", "monthly"}

InitFrequency ==
  /\ orders = <<>>
  /\ isProcessing = FALSE
  /\ now = StartHour
  /\ req = [s \in Slots |-> IdleReq]
  /\ started = 0
  /\ alerts = {}
  /\ cocktails = [c \in CocktailIds |->
                    [price |-> 1, isActive |-> TRUE, availableStates |-> {"Lagos"}]]
  /\ \E frequency \in AlertFrequencies,
        lastAlertSent \in {-1} \cup {StartHour - d : d \in ElapsedHours} :
       inventory = <<[StockRecord(1, "c1", 0) EXCEPT
                        !.alertSettings.frequency = frequency,
                        !.alertSettings.lastAlertSent = lastAlertSent],
                     StockRecord(2, "c2", 1)>>
  /\ ledger = {Seeded(inventory[1]), Seeded(inventory[2])}

NextFrequency ==
  \/ \E s \in Slots :
       \/ TimerFire(s)
       \/ CheckAlertsReceive(s)
       \/ SweepStep(s)
  \/ Tick

SpecFrequency == InitFrequency /\ [][NextFrequency]_vars

\* Restock history: a record that was created empty and restocked one unit
\* at a time until its history is at or just below the cap, restocked further
\* by a sequence of requests, each made when the one before was answered
LongHistory(h) ==
  [StockRecord(1, "c1", h) EXCEPT
     !.restockHistory = [k \in 1..h |-> [quantity |-> 1, n |-> k - h]],
     !.v = h]

InitHistory ==
  /\ InitCommon
  /\ cocktails = [c \in CocktailIds |->
                    [price |-> 1, isActive |-> TRUE, availableStates |-> {"Lagos"}]]
  /\ \E h \in (HistoryCap - 2)..HistoryCap :
       /\ inventory = <<LongHistory(h)>>
       /\ ledger = {Seeded(StockRecord(1, "c1", 0))} \cup
                   {[kind |-> "restock", n |-> k - h, key |-> "", i |-> 0, id |-> 1,
                     quantity |-> 1] : k \in 1..h}

NextHistory ==
  \E s \in Slots :
    \/ (\A u \in Slots : req[u].pc \in {"idle", "done"}) /\ RestockReceive(s)
    \/ RestockFindById(s)
    \/ RestockSave(s)

SpecHistory == InitHistory /\ [][NextHistory]_vars

\* Listing by status: the record of every level is listed by the admin
NextListing ==
  \E s \in Slots :
    \/ ListInventoryReceive(s)
    \/ ListInventoryFind(s)
    \/ ListInventorySummary(s)

SpecListing == InitLevels /\ [][NextListing]_vars

-----------------------------------------------------------------------------
(* Properties *)

RECURSIVE SumQuantities(_)
SumQuantities(events) ==
  IF events = {} THEN 0
  ELSE LET e == CHOOSE x \in events : TRUE
       IN e.quantity + SumQuantities(events \ {e})

\* no request is in flight
Quiet == \A s \in Slots : req[s].pc \in {"idle", "done"}

Moves(kind, id) == {e \in ledger : e.kind = kind /\ e.id = id}

OrdersWithKey(key) == {k \in 1..Len(orders) : orders[k].idempotencyKey = key}

\* C1: whatever the interleaving of the POST /orders calls that use one
\* idempotency key, at most one persisted Order carries that key.
C1_OneOrderPerKey == \A key \in Keys : Cardinality(OrdersWithKey(key)) <= 1

\* two calls with one key both passed the lookup; one inserted its order and
\* is still at work, the insert of the other was rejected
C1_Witness ==
  \E s, t \in Slots :
    /\ s # t
    /\ req[s].key = req[t].key
    /\ req[s].op = "createOrder" /\ req[s].pc = "done" /\ req[s].response.status = 500
    /\ req[t].op = "createOrder" /\ req[t].order.id # 0
    /\ Len(orders) = 1

\* C2: a POST /orders whose idempotency key already belongs to a persisted
\* order is not answered with an error: it succeeds and returns that order.
C2_ReplayReturnsExistingOrder ==
  [][\A s \in Slots :
       (/\ req[s].op = "createOrder" /\ req[s].pc = "findExisting"
        /\ FindOrderByKey(req[s].key).id # 0
        /\ req'[s] # req[s])
       => (/\ req'[s].pc = "done"
           /\ req'[s].response.status < 400
           /\ req'[s].response.order = FindOrderByKey(req[s].key))]_vars

\* C3: the call whose insert is rejected by the unique index on the
\* idempotency key returns the winner's order, never an error.
C3_LoserReadsBackWinner ==
  [][\A s \in Slots :
       (/\ req[s].op = "createOrder" /\ req[s].pc = "insert"
        /\ FindOrderByKey(req[s].key).id # 0
        /\ req'[s].pc = "done")
       => (/\ req'[s].response.status < 400
           /\ req'[s].response.order = FindOrderByKey(req[s].key))]_vars

\* C4: no oversell.  When every request has been answered, the stock of a
\* record that was only decremented equals its initial stock minus the
\* decrements that succeeded, and if the orders asked for more than the
\* initial stock, at least one decrement failed.
C4_NoOversell ==
  Quiet =>
    \A id \in 1..Len(inventory) :
      (Moves("restock", id) = {} /\ Moves("set", id) = {})
      => LET initial == SumQuantities(Moves("create", id))
             reduced == Moves("reduce", id)
             asked == SumSeq([k \in 1..Len(orders) |->
                                SumSeq([i \in 1..Len(orders[k].items) |->
                                          IF orders[k].items[i].cocktail = inventory[id].cocktail
                                          THEN orders[k].items[i].quantity ELSE 0])])
         IN /\ inventory[id].currentStock = initial - SumQuantities(reduced)
            /\ asked > initial => Cardinality(reduced) < Len(orders)

\* C5: the stock of every record is at least 0 in every state.
C5_StockNeverNegative ==
  \A id \in 1..Len(inventory) : inventory[id].currentStock >= 0

\* an order was answered after its decrement was refused: it asked for more
\* than the record held, and the record is unchanged by it
C5_Witness ==
  \E s \in Slots :
    /\ req[s].op = "createOrder" /\ req[s].pc = "done" /\ req[s].response.status = 201
    /\ {e \in ledger : e.kind = "reduce" /\ e.n = req[s].n} = {}
    /\ \E id \in 1..Len(inventory) :
         /\ inventory[id].cocktail = req[s].response.order.items[1].cocktail
         /\ inventory[id].currentStock < req[s].response.order.items[1].quantity

\* C6: no lost update.  When every request has been answered, the stock of
\* a record equals its initial stock plus what was restocked minus what was
\* decremented.
C6_NoLostUpdate ==
  Quiet =>
    \A id \in 1..Len(inventory) :
      Moves("set", id) = {}
      => inventory[id].currentStock =
           SumQuantities(Moves("create", id)) + SumQuantities(Moves("restock", id))
             - SumQuantities(Moves("reduce", id))

\* C7: however often POST /orders is repeated with one idempotency key, the
\* stock of a line item is decremented at most once for that key.
C7_OneDecrementPerKey ==
  \A key \in Keys, id \in 1..Len(inventory) :
    Cardinality({e \in Moves("reduce", id) : e.key = key}) <= 1

\* a repeat of a key was answered as a duplicate after the first call had
\* decremented the stock
C7_Witness ==
  \E s \in Slots :
    /\ req[s].op = "createOrder" /\ req[s].pc = "done"
    /\ req[s].response.error = "Duplicate order"
    /\ \E e \in ledger : e.kind = "reduce" /\ e.key = req[s].key

\* C8: the subtotal of every persisted order is the sum over its line items
\* of quantity times the unit price stored on the item; the stored price is
\* the catalog price read when the order was built, and neither the items
\* nor the subtotal of a persisted order change when the catalog does.
C8_SubtotalOfStoredPrices ==
  /\ [](\A k \in 1..Len(orders) :
          orders[k].subtotal =
            SumSeq([i \in 1..Len(orders[k].items) |->
                      orders[k].items[i].quantity * orders[k].items[i].price]))
  /\ [][/\ \A s \in Slots :
             (req[s].pc = "findCocktails" /\ req'[s].pc = "countDocuments")
             => \A i \in 1..Len(req'[s].order.items) :
                  req'[s].order.items[i].price =
                    cocktails[req'[s].order.items[i].cocktail].price
        /\ \A k \in 1..Len(orders) :
             /\ orders'[k].items = orders[k].items
             /\ orders'[k].subtotal = orders[k].subtotal]_vars

\* an order of two line items is persisted and the catalog price of one of
\* its cocktails is no longer the price stored on the item
C8_Witness ==
  \E k \in 1..Len(orders) :
    /\ Len(orders[k].items) = 2
    /\ \E i \in 1..2 :
         /\ orders[k].items[i].cocktail \in DOMAIN cocktails
         /\ orders[k].items[i].quantity > 1
         /\ cocktails[orders[k].items[i].cocktail].price # orders[k].items[i].price

\* the errors of POST /orders that report an unavailable product
ProductUnavailable == {"Invalid cocktails", "Cocktail not available"}

\* C9: a POST /orders is accepted past the catalog lookup only if every
\* requested cocktail exists, is active and is sold in the customer's
\* state; otherwise it is answered with a ProductUnavailable error in that
\* same step, which leaves orders and stock as they were.
C9_UnavailableProductRejected ==
  [][\A s \in Slots :
       (req[s].op = "createOrder" /\ req[s].pc = "findCocktails" /\ req'[s] # req[s])
       => IF req'[s].pc = "done"
          THEN /\ req'[s].response.status = 400
               /\ req'[s].response.error \in ProductUnavailable
               /\ req'[s].response.order = NoOrder
               /\ orders' = orders
               /\ inventory' = inventory
          ELSE \A i \in 1..Len(req'[s].order.items) :
                 LET c == req'[s].order.items[i].cocktail
                 IN /\ c \in DOMAIN cocktails
                    /\ cocktails[c].isActive
                    /\ req'[s].order.customerState \in cocktails[c].availableStates]_vars

\* one request was refused for a missing or inactive cocktail and another
\* for the customer's state, and no order exists
C9_Witness ==
  /\ \E s, t \in Slots :
       /\ req[s].pc = "done" /\ req[s].response.error = "Invalid cocktails"
       /\ req[t].pc = "done" /\ req[t].response.error = "Cocktail not available"
  /\ orders = <<>>
  /\ \E c \in DOMAIN cocktails : ~cocktails[c].isActive

\* C10: delivered and cancelled are terminal: the fulfillmentStatus of an
\* order that is delivered or cancelled never changes again.
C10_TerminalStatusIsFinal ==
  [][\A k \in 1..Len(orders) :
       orders[k].fulfillmentStatus \in {"delivered", "cancelled"}
       => orders'[k].fulfillmentStatus = orders[k].fulfillmentStatus]_vars

\* slot s is about to read the stock record of its current line item, the
\* record exists and holds less than the item asks for
Shortfall(s) ==
  /\ req[s].op = "createOrder" /\ req[s].pc = "findInventory"
  /\ req[s].populated[req[s].i]
  /\ LET item == req[s].order.items[req[s].i]
         record == FindActiveInventory(item.cocktail)
     IN record.id # 0 /\ item.quantity > record.currentStock

\* C11: when a line item asks for more than the stock record holds, the
\* order stays persisted and the request answers 201 with it, the decrement
\* of that item does not happen and no stock record changes.
C11_ShortfallKeepsOrder ==
  [][\A s \in Slots :
       (Shortfall(s) /\ req'[s] # req[s])
       => /\ req'[s].pc = "done"
          /\ req'[s].response.status = 201
          /\ req'[s].response.order = req[s].order
          /\ req[s].order.id \in 1..Len(orders')
          /\ orders'[req[s].order.id].idempotencyKey = req[s].key
          /\ inventory' = inventory
          /\ ledger' = ledger]_vars

\* an order for more than the record holds was answered 201, is persisted,
\* and the record still holds the stock it was created with
C11_Witness ==
  \E s \in Slots :
    /\ req[s].op = "createOrder" /\ req[s].pc = "done" /\ req[s].response.status = 201
    /\ FindOrderByKey(req[s].key) = req[s].response.order
    /\ Moves("reduce", 1) = {}
    /\ \E e \in Moves("create", 1) :
         /\ inventory[1].currentStock = e.quantity
         /\ req[s].response.order.items[1].quantity > e.quantity

\* C12: when the decrement of a line item fails for insufficient stock, the
\* response of POST /orders carries an inventory warning.
C12_ShortfallIsReported ==
  [][\A s \in Slots :
       (Shortfall(s) /\ req'[s] # req[s])
       => /\ req'[s].pc = "done"
          /\ req'[s].response.inventoryWarning # ""]_vars

\* the responses that serialise a stock record
Serialised == {req[s].response : s \in {x \in Slots : req[x].response.inventory.id # 0}}

C19_OneAlertPerSweep ==
  \A a, b \in alerts : (a.n = b.n /\ a.item = b.item) => a.kind = b.kind

\* the positions of a handler inside the body of checkInventoryLevels
SweepPcs == {"findLowStock", "findCriticalStock", "sendEmail", "saveAlert"}

Sweeping == {s \in Slots : req[s].pc \in SweepPcs}

\* C18: the sweep is non-reentrant.  At most one handler is inside the body of
\* checkInventoryLevels, and isProcessing is set exactly then; a handler that
\* reaches checkInventoryLevels while a sweep is in progress does not enter
\* the body, sends no notification and writes no lastAlertSent.
C18_SweepNonReentrant ==
  /\ [](Cardinality(Sweeping) <= 1 /\ (isProcessing <=> Sweeping # {}))
  /\ [][\A s \in Slots :
          (isProcessing /\ s \notin Sweeping /\ req'[s] # req[s])
          => /\ req'[s].pc \notin SweepPcs
             /\ alerts' = alerts
             /\ \A id \in 1..Len(inventory) :
                  inventory'[id].alertSettings = inventory[id].alertSettings]_vars

\* POST /inventory/check-alerts and the timer were both answered as no-ops
\* while the sweep started by an order is at work
C18_Witness ==
  \E s, t \in Slots :
    /\ req[s].op = "createOrder" /\ s \in Sweeping
    /\ req[t].op = "checkAlerts" /\ req[t].pc = "done" /\ req[t].response.status = 200
    /\ req[t].n > req[s].n
    /\ \A a \in alerts : a.n # req[t].n
    /\ isProcessing

\* the frequency windows as the claim states them, in hours
ClaimedWindow(frequency) ==
  CASE frequency = "immediate" -> 0
    [] frequency = "daily" -> 24
    [] frequency = "weekly" -> 7 * 24
    [] frequency = "monthly" -> 30 * 24

ClaimedShouldAlert(settings, t) ==
  \/ settings.lastAlertSent = -1
  \/ t - settings.lastAlertSent >= ClaimedWindow(settings.frequency)

\* C14: shouldSendAlert is true exactly when lastAlertSent is unset or at
\* least the frequency window (immediate 0, daily 24h, weekly 7 days,
\* monthly 30 days) has passed since it.  Observed where the sweep applies
\* it: when a sweep moves on from position p0 of its lists, every record it
\* passes over that has alerts enabled (and, in the low pass, is not
\* critical) is one for which the claimed condition is false, and the record
\* it stops at to notify is one for which it is true.
C14_ShouldAlertWindow ==
  [][\A s \in Slots :
       (req[s].pc \in {"findCriticalStock", "saveAlert"} /\ req'[s] # req[s])
       => LET r == req[s]
              crit == IF r.pc = "findCriticalStock" THEN FindCriticalStock ELSE r.crit
              p0 == IF r.pc = "findCriticalStock" THEN 0 ELSE r.pos
              total == Len(crit) + Len(r.low)
              p1 == IF req'[s].pc = "sendEmail" THEN req'[s].pos ELSE total + 1
              item(q) == IF q <= Len(crit) THEN crit[q] ELSE r.low[q - Len(crit)]
              gate(q) == /\ item(q).alertSettings.isEnabled
                         /\ q > Len(crit) =>
                              item(q).currentStock > item(q).alertSettings.alertThreshold
          IN /\ \A q \in (p0 + 1)..(p1 - 1) :
                  gate(q) => ~ClaimedShouldAlert(item(q).alertSettings, now)
             /\ p1 <= total =>
                  gate(p1) /\ ClaimedShouldAlert(item(p1).alertSettings, now)]_vars

\* the daily record was passed over 23 hours after its last alert by one
\* sweep and notified an hour later by the next
C14_Witness ==
  /\ inventory[1].alertSettings.frequency = "daily"
  /\ now = StartHour + 1
  /\ \E s \in Slots :
       /\ req[s].pc = "saveAlert"
       /\ SweepItem(req[s], req[s].pos).id = 1
       /\ SweepItem(req[s], req[s].pos).alertSettings.lastAlertSent = now - 24
       /\ \E a \in alerts : a.n < req[s].n /\ a.item = 2
       /\ \A a \in alerts : a.n < req[s].n => a.item # 1

\* C20: a failure of the email service for one record does not end the
\* sweep.  Whether or not the email went out, the handler goes on to save
\* lastAlertSent for that record; from there it goes on to the next record
\* of its lists that is enabled, was never alerted and (in the low pass) is
\* not critical, or passes such records by only for one that is due earlier
\* in the lists; and a sweep that ends does not answer with an error.
C20_NotifierFailureContinues ==
  [][\A s \in Slots :
       /\ (req[s].pc = "sendEmail" /\ req'[s] # req[s])
          => req'[s] = [req[s] EXCEPT !.pc = "saveAlert", !.arg = req'[s].arg]
       /\ (req[s].pc = "saveAlert" /\ req'[s] # req[s])
          => LET r == req[s]
                 total == Len(r.crit) + Len(r.low)
                 item(q) == IF q <= Len(r.crit) THEN r.crit[q] ELSE r.low[q - Len(r.crit)]
                 open == {q \in (r.pos + 1)..total :
                            /\ item(q).alertSettings.isEnabled
                            /\ item(q).alertSettings.lastAlertSent = -1
                            /\ q > Len(r.crit) =>
                                 item(q).currentStock > item(q).alertSettings.alertThreshold}
             IN /\ open # {} =>
                     /\ req'[s].pc = "sendEmail"
                     /\ req'[s].pos \in (r.pos + 1)..Min(open)
                     /\ req'[s].crit = r.crit /\ req'[s].low = r.low
                /\ req'[s].pc = "done" => req'[s].response.status < 400]_vars

\* the email for the first record of a sweep failed and the sweep has gone
\* on to notify the second record
C20_Witness ==
  \E s \in Slots :
    /\ req[s].pc = "saveAlert"
    /\ \E a, b \in alerts :
         /\ a.n = req[s].n /\ b.n = req[s].n
         /\ ~a.ok /\ a.item = 1 /\ a.kind = "critical"
         /\ b.item = SweepItem(req[s], req[s].pos).id /\ b.item = 2

\* C15: after a sequence of n restocks of a record its restockHistory holds
\* exactly min(n, 50) entries, and they are the most recent restocks in the
\* order they were made (restocks are numbered in the order they are made).
C15_HistoryCap ==
  \A id \in 1..Len(inventory) :
    LET made == Moves("restock", id)
        history == inventory[id].restockHistory
        kept == {e \in made : Cardinality({f \in made : f.n > e.n}) < HistoryCap}
    IN /\ Len(history) = IF Cardinality(made) < HistoryCap
                           THEN Cardinality(made) ELSE HistoryCap
       /\ \A k \in 1..Len(history) :
            /\ \E e \in kept : e.n = history[k].n /\ e.quantity = history[k].quantity
            /\ \A j \in 1..(k - 1) : history[j].n < history[k].n

\* 52 restocks were made and the history holds the last 50 of them
C15_Witness ==
  /\ Cardinality(Moves("restock", 1)) = HistoryCap + 2
  /\ Len(inventory[1].restockHistory) = HistoryCap
  /\ inventory[1].restockHistory[1].n = -(HistoryCap - 3)
  /\ inventory[1].restockHistory[HistoryCap].n > 0

\* the stock records of a cocktail
RecordsOf(c) == {id \in 1..Len(inventory) : inventory[id].cocktail = c}

\* C16: there is at most one stock record per cocktail, whatever the
\* interleaving of POST /inventory calls; a call that looks a cocktail up
\* when it has a record already is refused with 'Inventory already exists',
\* and no step of a call for such a cocktail adds or changes a record.
C16_OneRecordPerCocktail ==
  /\ [](\A c \in CocktailIds : Cardinality(RecordsOf(c)) <= 1)
  /\ [][\A s \in Slots :
          (/\ req[s].op = "createInventory" /\ req'[s] # req[s]
           /\ RecordsOf(req[s].doc.cocktail) # {})
          => /\ inventory' = inventory
             /\ req[s].pc = "findExistingInventory" =>
                  /\ req'[s].pc = "done"
                  /\ req'[s].response.status = 400
                  /\ req'[s].response.error = "Inventory already exists"
             /\ req'[s].pc = "done" => req'[s].response.status >= 400]_vars

\* a record was created for a cocktail and a later call for the same
\* cocktail was refused as existing
C16_Witness ==
  \E s, t \in Slots :
    /\ req[s].op = "createInventory" /\ req[s].pc = "done" /\ req[s].response.status = 201
    /\ req[t].op = "createInventory" /\ req[t].pc = "done"
    /\ req[t].response.error = "Inventory already exists"
    /\ Cardinality(RecordsOf(req[s].response.inventory.cocktail)) = 1
    /\ Len(inventory) = 1

\* the number an orderNumber spells after its prefix
RECURSIVE DigitsValue(_)
DigitsValue(digits) ==
  IF digits = <<>> THEN 0
  ELSE 10 * DigitsValue(SubSeq(digits, 1, Len(digits) - 1)) + digits[Len(digits)]

OrderNumberValue(orderNumber) == DigitsValue(Tail(orderNumber))

\* C17: no two persisted orders share an orderNumber, and an order persisted
\* after another carries a strictly larger number.
C17_OrderNumbersIncrease ==
  \A j, k \in 1..Len(orders) :
    j < k => /\ orders[j].orderNumber # orders[k].orderNumber
             /\ OrderNumberValue(orders[j].orderNumber) < OrderNumberValue(orders[k].orderNumber)

\* two orders are persisted with the numbers 1 and 2, and a request whose
\* insert was refused by a unique index has since had its key persisted
C17_Witness ==
  /\ Len(orders) = 2
  /\ orders[1].orderNumber = OrderNumberOf(0)
  /\ orders[2].orderNumber = OrderNumberOf(1)
  /\ \E s \in Slots :
       /\ req[s].op = "createOrder" /\ req[s].pc = "done" /\ req[s].response.status = 500
       /\ OrdersWithKey(req[s].key) # {}
       /\ \A k \in OrdersWithKey(req[s].key) : k = 2

\* the stages of fulfilment in order
StageOf(status) ==
  CASE status = "new" -> 1
    [] status = "preparing" -> 2
    [] status = "in_route" -> 3
    [] status = "delivered" -> 4
    [] OTHER -> 0

\* C21: the fulfillmentStatus of an order never moves backward: a change of
\* it is an advance along new, preparing, in_route, delivered, or a move to
\* cancelled from new or preparing.
C21_StatusMovesForward ==
  [][\A k \in 1..Len(orders) :
       LET old == orders[k].fulfillmentStatus
           new == orders'[k].fulfillmentStatus
       IN new # old =>
            \/ StageOf(old) > 0 /\ StageOf(new) > StageOf(old)
            \/ new = "cancelled" /\ old \in {"new", "preparing"}]_vars

\* C22: every record for which a sweep calls the notifier is classified
\* critical or low by stockStatus as the sweep listed it; a record listed as
\* sufficient or out_of_stock is never notified.
C22_NotifiedAreCriticalOrLow ==
  [][\A s \in Slots :
       (req[s].pc = "sendEmail" /\ alerts' # alerts /\ req'[s] # req[s])
       => StockStatus(SweepItem(req[s], req[s].pos)) \in {"critical", "low"}]_vars

\* the active stock records whose stockStatus is the given status
Classified(status) == {d \in Range(inventory) : d.isActive /\ StockStatus(d) = status}

\* C23: listing by status agrees with classify: GET /inventory?status=x
\* returns exactly the active records whose stockStatus is x.
C23_ListingAgreesWithClassify ==
  [][\A s \in Slots :
       (req[s].op = "listInventory" /\ req[s].pc = "findListing" /\ req'[s] # req[s])
       => Range(req'[s].low) = Classified(req[s].path)]_vars

\* C24: the decrement an order makes for a line item lowers the stock of
\* that item's record by exactly the item's quantity and changes no other
\* record, and an order decrements a record at most once.
C24_DecrementExactlyOnce ==
  /\ [](\A e, f \in ledger :
          (e.kind = "reduce" /\ f.kind = "reduce" /\ e.n = f.n /\ e.id = f.id) => e = f)
  /\ [][\A s \in Slots :
          (/\ req[s].op = "createOrder" /\ req[s].pc = "saveInventory"
           /\ req'[s] # req[s] /\ ledger' # ledger)
          => \A id \in 1..Len(inventory) :
               inventory'[id].currentStock =
                 IF id = req[s].doc.id
                 THEN inventory[id].currentStock - req[s].order.items[req[s].i].quantity
                 ELSE inventory[id].currentStock]_vars

\* the handlers that take a step
Acting == {s \in Slots : req'[s] # req[s]}

\* C25: the currentStock of a stock record changes only by a restock, which
\* raises it, and by the decrement of an order, which lowers it, and its
\* restockHistory changes only by a restock; every other operation (the
\* update PUT /inventory/:id, the sweep) leaves both unchanged.
C25_StockChangesOnlyByRestockAndOrder ==
  [][\A id \in 1..Len(inventory) :
       /\ inventory'[id].currentStock > inventory[id].currentStock
          => \E s \in Acting : req[s].op = "restock"
       /\ inventory'[id].currentStock < inventory[id].currentStock
          => \E s \in Acting : req[s].op = "createOrder"
       /\ inventory'[id].restockHistory # inventory[id].restockHistory
          => \E s \in Acting : req[s].op = "restock"]_vars

\* slot s is about to insert an order whose idempotency key is new and whose
\* orderNumber, derived from the count it read, is already carried by an
\* order that another call persisted in the meantime
NumberTaken(s) ==
  /\ req[s].op = "createOrder" /\ req[s].pc = "insert"
  /\ OrdersWithKey(req[s].key) = {}
  /\ \E k \in 1..Len(orders) : orders[k].orderNumber = req[s].order.orderNumber

\* C26: order-number generation is racy.  Two concurrent calls with
\* different idempotency keys can read the same count and derive the same
\* orderNumber; then only one of the two orders is persisted, and the other
\* call fails without creating an order.
C26_NumberRaceLoserFails ==
  [][\A s \in Slots :
       (NumberTaken(s) /\ req'[s] # req[s])
       => /\ req'[s].pc = "done"
          /\ req'[s].response.status = 500
          /\ req'[s].response.order = NoOrder
          /\ orders' = orders]_vars

\* the race has happened: one order is persisted, and a call with another
\* key, which nothing persisted, was answered 500
C26_Witness ==
  \E s \in Slots :
    /\ req[s].op = "createOrder" /\ req[s].pc = "done"
    /\ req[s].response.status = 500
    /\ OrdersWithKey(req[s].key) = {}
    /\ Len(orders) = 1
    /\ orders[1].orderNumber = OrderNumberOf(0)

\* C27: every sweep that starts eventually clears isProcessing, also when a
\* query, a notification or a save inside it fails; so once no sweep is
\* running the flag is clear, and a trigger that arrives then enters the
\* sweep instead of being skipped as already in progress.
C27_SweepClearsFlag ==
  /\ isProcessing ~> ~isProcessing
  /\ [](Sweeping = {} => ~isProcessing)
  /\ [][\A s \in Slots :
         (Sweeping = {} /\ req'[s] # req[s]) => req'[s].pc = "findLowStock"]_vars

\* one sweep failed on a query or a save, and a sweep triggered after it is
\* running
C27_Witness ==
  \E e \in alerts, s \in Slots :
    /\ e.kind = "error"
    /\ req[s].n > e.n
    /\ req[s].pc \in SweepPcs
    /\ isProcessing

\* C28: after every notification attempt for a record, delivered or not, the
\* sweep stores the current time as the record's lastAlertSent; so while
\* less than the record's frequency window has passed, no later sweep makes
\* another attempt for it.
C28_AttemptStampsRecord ==
  /\ [][\A s \in Slots :
         (req[s].pc = "sendEmail" /\ req'[s] # req[s])
         => req'[s].pc = "saveAlert" /\ req'[s].arg = now]_vars
  /\ [][\A s \in Slots :
         (req[s].pc = "saveAlert" /\ req'[s] # req[s])
         => inventory'[SweepItem(req[s], req[s].pos).id].alertSettings.lastAlertSent
              = req[s].arg]_vars
  /\ [](\A a \in alerts, b \in alerts :
          (a.item = b.item /\ a.n # b.n)
          => now - StartHour >= FrequencyWindow(inventory[a.item].alertSettings.frequency))

\* the notification for the second record failed in one sweep, its
\* lastAlertSent was stored all the same, and a later sweep has loaded it
C28_Witness ==
  \E e \in alerts, s \in Slots :
    /\ e.item = 2 /\ ~e.ok
    /\ req[s].n > e.n
    /\ req[s].pc = "findCriticalStock"
    /\ \E k \in 1..Len(req[s].low) :
         /\ req[s].low[k].id = 2
         /\ req[s].low[k].alertSettings.lastAlertSent >= StartHour

\* the line items name pairwise different products
DistinctProducts(items) ==
  \A j \in 1..Len(items), k \in 1..Len(items) :
    items[j].cocktail = items[k].cocktail => j = k

\* C29: createOrder goes on to build an order only when the number of
\* active products found equals the number of line items, and rejects the
\* request with 400 otherwise; so a request with two line items for the
\* same product is rejected and no order with a repeated product exists.
C29_CountMismatchRejects ==
  /\ [][\A s \in Slots :
         (req[s].op = "createOrder" /\ req[s].pc = "findCocktails" /\ req'[s] # req[s])
         => \/ /\ req'[s].pc = "countDocuments"
               /\ DistinctProducts(req'[s].order.items)
               /\ \A k \in 1..Len(req'[s].order.items) :
                    /\ req'[s].order.items[k].cocktail \in DOMAIN cocktails
                    /\ cocktails[req'[s].order.items[k].cocktail].isActive
            \/ /\ req'[s].pc = "done"
               /\ req'[s].response.status = 400
               /\ req'[s].response.order = NoOrder
               /\ orders' = orders]_vars
  /\ [](\A k \in 1..Len(orders) : DistinctProducts(orders[k].items))

\* every product is in the catalog and active, as it has been from the
\* start, and yet a request was rejected by the count check: it named one
\* product twice
C29_Witness ==
  /\ DOMAIN cocktails = CocktailIds
  /\ \A c \in CocktailIds : cocktails[c].isActive
  /\ orders = <<>>
  /\ \E s \in Slots :
       /\ req[s].op = "createOrder" /\ req[s].pc = "done"
       /\ req[s].response.status = 400
       /\ req[s].response.error = "Invalid cocktails"

\* the line items of request n whose decrement was stored
Reduced(n, L) == {e.i : e \in {f \in L : f.kind = "reduce" /\ f.n = n}}

\* C30: for an order with several line items, processing stops at the first
\* item whose stock is insufficient: the decrements of the items before it
\* were stored and are not taken back, no stock record changes at that item,
\* no decrement is stored for it or for any later item, and the order stays
\* persisted; so the stored decrements of a request are always those of
\* its first items.
C30_StopsAtFirstShortfall ==
  /\ [][\A s \in Slots :
         (Shortfall(s) /\ Len(req[s].order.items) > 1 /\ req'[s] # req[s])
         => /\ req'[s].pc = "done"
            /\ req'[s].response.status = 201
            /\ req[s].order.id \in 1..Len(orders')
            /\ orders'[req[s].order.id].items = req[s].order.items
            /\ inventory' = inventory
            /\ Reduced(req[s].n, ledger') = 1..(req[s].i - 1)]_vars
  /\ [](\A e \in ledger : e.kind = "reduce" => 1..e.i \subseteq Reduced(e.n, ledger))

\* an order of two line items was answered 201 and is persisted; the
\* decrement of its first item is stored, none is stored for the second,
\* whose product is still in the catalog and whose record is empty
C30_Witness ==
  \E s \in Slots :
    /\ req[s].op = "createOrder" /\ req[s].pc = "done" /\ req[s].response.status = 201
    /\ Len(req[s].response.order.items) = 2
    /\ FindOrderByKey(req[s].key) = req[s].response.order
    /\ Reduced(req[s].n, ledger) = {1}
    /\ req[s].response.order.items[2].cocktail \in DOMAIN cocktails
    /\ FindActiveInventory(req[s].response.order.items[2].cocktail).currentStock = 0
    /\ FindActiveInventory(req[s].response.order.items[1].cocktail).currentStock < MaxStock
====
